---- MODULE Spec2Model ----
(***************************************************************************)
(* A model of the benchmark runner of hash-org/metrics:                    *)
(*   scripts/runner/messages.py  Duration, MetricEntry, Metrics,           *)
(*                               find_message_in_stream                    *)
(*   scripts/runner/stats.py     modified_zscores, check_outliers          *)
(*   scripts/runner/cases.py     run_test_case, _single_run                *)
(*                                                                         *)
(* Python floats are IEEE-754 binary64.  TLC has 32-bit integers only, so  *)
(* a float is modelled as sign * mantissa * 2^exponent with the mantissa a *)
(* little-endian sequence of 15-bit limbs, and every float operation       *)
(* rounds its exact result to 53 bits, ties to even, as the hardware does. *)
(***************************************************************************)
EXTENDS Integers, Sequences, FiniteSets, TLC

(***************************************************************************)
(* Natural numbers of any size: <<>> is 0, a[1] is the least limb.         *)
(***************************************************************************)
LimbBits == 15

Limb == 2 ^ LimbBits

RECURSIVE BNorm(_)
BNorm(a) ==
    IF a = <<>> THEN <<>>
    ELSE IF a[Len(a)] = 0 THEN BNorm(SubSeq(a, 1, Len(a) - 1))
    ELSE a

RECURSIVE BFromInt(_)
BFromInt(n) ==
    IF n = 0 THEN <<>> ELSE <<n % Limb>> \o BFromInt(n \div Limb)

RECURSIVE BToInt(_)
BToInt(a) ==
    IF a = <<>> THEN 0 ELSE a[1] + Limb * BToInt(Tail(a))

BRest(a) == IF a = <<>> THEN <<>> ELSE Tail(a)

BLow(a) == IF a = <<>> THEN 0 ELSE a[1]

\* a + b + c for a carry c
RECURSIVE BAddC(_, _, _)
BAddC(a, b, c) ==
    IF a = <<>> /\ b = <<>> THEN (IF c = 0 THEN <<>> ELSE <<c>>)
    ELSE <<(BLow(a) + BLow(b) + c) % Limb>>
             \o BAddC(BRest(a), BRest(b), (BLow(a) + BLow(b) + c) \div Limb)

BAdd(a, b) == BAddC(a, b, 0)

\* a - b - c for a >= b + c and a borrow c
RECURSIVE BSubC(_, _, _)
BSubC(a, b, c) ==
    IF a = <<>> THEN <<>>
    ELSE <<(a[1] - BLow(b) - c + Limb) % Limb>>
             \o BSubC(Tail(a), BRest(b), IF a[1] - BLow(b) - c < 0 THEN 1 ELSE 0)

BSub(a, b) == BNorm(BSubC(a, b, 0))

\* -1, 0, 1 as a < b, a = b, a > b (both without leading zero limbs)
RECURSIVE BCmpFrom(_, _, _)
BCmpFrom(a, b, i) ==
    IF i = 0 THEN 0
    ELSE IF a[i] < b[i] THEN -1
    ELSE IF a[i] > b[i] THEN 1
    ELSE BCmpFrom(a, b, i - 1)

BCmp(a, b) ==
    IF Len(a) < Len(b) THEN -1
    ELSE IF Len(a) > Len(b) THEN 1
    ELSE BCmpFrom(a, b, Len(a))

\* a * k + c for 0 <= k, c < Limb
RECURSIVE BMulSmallC(_, _, _)
BMulSmallC(a, k, c) ==
    IF a = <<>> THEN (IF c = 0 THEN <<>> ELSE <<c>>)
    ELSE <<(a[1] * k + c) % Limb>>
             \o BMulSmallC(Tail(a), k, (a[1] * k + c) \div Limb)

BMulSmall(a, k) == BNorm(BMulSmallC(a, k, 0))

RECURSIVE BMul(_, _)
BMul(a, b) ==
    IF b = <<>> \/ a = <<>> THEN <<>>
    ELSE BAdd(BMulSmall(a, b[1]), BNorm(<<0>> \o BMul(a, Tail(b))))

BZeros(n) == [i \in 1..n |-> 0]

\* a * 2^n
BShl(a, n) ==
    IF a = <<>> THEN <<>>
    ELSE BZeros(n \div LimbBits) \o BMulSmall(a, 2 ^ (n % LimbBits))

\* floor(a / k) for 0 < k < Limb, from the top limb down, r < k the running
\* remainder
RECURSIVE BDivSmallR(_, _, _)
BDivSmallR(a, k, r) ==
    IF a = <<>> THEN <<>>
    ELSE IF r * Limb + a[Len(a)] < k
    THEN BDivSmallR(SubSeq(a, 1, Len(a) - 1), k, r * Limb + a[Len(a)]) \o <<0>>
    ELSE BDivSmallR(SubSeq(a, 1, Len(a) - 1), k, (r * Limb + a[Len(a)]) % k)
             \o <<(r * Limb + a[Len(a)]) \div k>>

BDivSmall(a, k) == BNorm(BDivSmallR(a, k, 0))

\* floor(a / 2^n)
BShr(a, n) ==
    IF n \div LimbBits >= Len(a) THEN <<>>
    ELSE BDivSmall(SubSeq(a, n \div LimbBits + 1, Len(a)), 2 ^ (n % LimbBits))

\* whether 2^n divides a
BLowZero(a, n) ==
    /\ \A i \in 1..Len(a) : i <= n \div LimbBits => a[i] = 0
    /\ n \div LimbBits < Len(a) => a[n \div LimbBits + 1] % 2 ^ (n % LimbBits) = 0

\* half of q1 rounded to the nearest integer, a tie to the even one; exact is
\* whether q1 stands for its value exactly or for a little more
Nearest(q1, exact) ==
    IF BLow(q1) % 2 = 1 /\ (~exact \/ BLow(q1) % 4 = 3)
    THEN BAddC(BDivSmall(q1, 2), <<>>, 1)
    ELSE BDivSmall(q1, 2)

\* a / 2^n rounded to the nearest integer, a tie to the even one, for n >= 1
BShrNearest(a, n) == Nearest(BShr(a, n - 1), BLowZero(a, n - 1))

RECURSIVE IntBitLen(_)
IntBitLen(n) == IF n = 0 THEN 0 ELSE 1 + IntBitLen(n \div 2)

BBitLen(a) ==
    IF a = <<>> THEN 0 ELSE LimbBits * (Len(a) - 1) + IntBitLen(a[Len(a)])

\* long division in base Limb (Knuth's algorithm D) by a divisor d whose top
\* limb has its top bit set.  r < d * Limb is the remainder so far with the
\* next limb of the dividend brought down; the quotient limb estimated from the
\* top limbs is the true one or exceeds it by at most 2.
Estimate(r, d) ==
    IF Len(r) < Len(d) THEN 0
    ELSE IF Len(r) = Len(d) THEN r[Len(r)] \div d[Len(d)]
    ELSE IF (r[Len(r)] * Limb + r[Len(r) - 1]) \div d[Len(d)] > Limb - 1
    THEN Limb - 1
    ELSE (r[Len(r)] * Limb + r[Len(r) - 1]) \div d[Len(d)]

\* the estimate q is lowered until d * q <= r; then <<the quotient q1 with q as
\* its new least limb, the remainder r - d * q>>
RECURSIVE LongDivStep(_, _, _, _)
LongDivStep(r, d, q1, q) ==
    IF BCmp(BMulSmall(d, q), r) <= 0
    THEN <<BNorm(<<q>> \o q1), BSub(r, BMulSmall(d, q))>>
    ELSE LongDivStep(r, d, q1, q - 1)

\* the limbs i..1 of n are brought down, the higher first, under qr, the
\* <<quotient, remainder>> of the limbs above limb i
RECURSIVE BDivModFrom(_, _, _, _)
BDivModFrom(n, d, i, qr) ==
    IF i = 0 THEN qr
    ELSE IF qr[2] = <<>> /\ n[i] = 0
    THEN BDivModFrom(n, d, i - 1, <<BNorm(<<0>> \o qr[1]), <<>>>>)
    ELSE BDivModFrom(n, d, i - 1,
                     LongDivStep(BNorm(<<n[i]>> \o qr[2]), d, qr[1],
                                 Estimate(BNorm(<<n[i]>> \o qr[2]), d)))

\* <<floor(n / d), n mod d>> for a d whose top limb has its top bit set: the
\* top Len(d) - 1 limbs of n are below d and are the first remainder
BDivModTop(n, d) ==
    IF Len(n) < Len(d) THEN <<<<>>, n>>
    ELSE BDivModFrom(n, d, Len(n) - Len(d) + 1,
                     <<<<>>, SubSeq(n, Len(n) - Len(d) + 2, Len(n))>>)

\* the shift that sets the top bit of the top limb of d
TopShift(d) == LimbBits - IntBitLen(d[Len(d)])

\* qr is <<quotient, remainder>> of n * 2^sh by d * 2^sh
Unshifted(qr, sh) == <<qr[1], BShr(qr[2], sh)>>

\* <<floor(n / d), n mod d>> for d # 0
BDivMod(n, d) ==
    Unshifted(BDivModTop(BShl(n, TopShift(d)), BShl(d, TopShift(d))), TopShift(d))

(***************************************************************************)
(* IEEE-754 binary64.  A float is [s, m, e] standing for s * m * 2^e with  *)
(* s in {1, -1}; zero is FZero, every other float has a 53-bit mantissa.   *)
(* Exponent overflow and subnormals lie outside the values the runner      *)
(* meets here (|x| between 2^-80 and 2^80) and are not modelled.           *)
(***************************************************************************)
MantBits == 53

FZero == [s |-> 1, m |-> <<>>, e |-> 0]

\* rounding to 53 bits can carry into a 54th
FCarry(s, m, e) ==
    IF BBitLen(m) > MantBits
    THEN [s |-> s, m |-> BDivSmall(m, 2), e |-> e + 1]
    ELSE [s |-> s, m |-> m, e |-> e]

\* the float nearest to s * m * 2^e, ties to even
FRound(s, m, e) ==
    IF m = <<>> THEN FZero
    ELSE IF BBitLen(m) <= MantBits
    THEN [s |-> s, m |-> BShl(m, MantBits - BBitLen(m)),
          e |-> e - (MantBits - BBitLen(m))]
    ELSE FCarry(s, BShrNearest(m, BBitLen(m) - MantBits),
                e + (BBitLen(m) - MantBits))

Abs(n) == IF n < 0 THEN -n ELSE n

\* float(n) for a Python int n
FInt(n) == FRound(IF n < 0 THEN -1 ELSE 1, BFromInt(Abs(n)), 0)

FNeg(a) == IF a.m = <<>> THEN a ELSE [a EXCEPT !.s = -a.s]

FAbs(a) == [a EXCEPT !.s = 1]

FMul(a, b) == FRound(a.s * b.s, BMul(a.m, b.m), a.e + b.e)

\* the operand of lesser magnitude is below a quarter of the other's last bit
\* once the exponents differ by more than AlignMax, and the sum rounds to the
\* greater operand
AlignMax == 60

\* sa * ma * 2^e + sb * mb * 2^e
FAddAligned(sa, ma, sb, mb, e) ==
    FRound(IF sa = sb \/ BCmp(ma, mb) >= 0 THEN sa ELSE sb,
           IF sa = sb THEN BAdd(ma, mb)
           ELSE IF BCmp(ma, mb) >= 0 THEN BSub(ma, mb)
           ELSE BSub(mb, ma),
           e)

FAdd(a, b) ==
    IF a.m = <<>> THEN b
    ELSE IF b.m = <<>> THEN a
    ELSE IF a.e - b.e > AlignMax THEN a
    ELSE IF b.e - a.e > AlignMax THEN b
    ELSE FAddAligned(a.s, BShl(a.m, a.e - (IF a.e < b.e THEN a.e ELSE b.e)),
                     b.s, BShl(b.m, b.e - (IF a.e < b.e THEN a.e ELSE b.e)),
                     IF a.e < b.e THEN a.e ELSE b.e)

FSub(a, b) == FAdd(a, FNeg(b))

\* twice the quotient, plus one when the division left a remainder
Sticky(qr) == BMulSmallC(qr[1], 2, IF qr[2] = <<>> THEN 0 ELSE 1)

\* |a / b| for a # 0 and b # 0: two guard bits and a sticky bit under the
\* quotient
FDivMag(a, b) ==
    FRound(1, Sticky(BDivMod(BShl(a.m, MantBits + 2), b.m)),
           a.e - b.e - MantBits - 3)

\* a / b for b # 0
FDiv(a, b) ==
    IF a.m = <<>> THEN FZero
    ELSE IF a.s = b.s THEN FDivMag(a, b)
    ELSE FNeg(FDivMag(a, b))

\* -1, 0, 1 as |a| < |b|, |a| = |b|, |a| > |b|
FCmpMag(a, b) ==
    IF a.m = <<>> THEN (IF b.m = <<>> THEN 0 ELSE -1)
    ELSE IF b.m = <<>> THEN 1
    ELSE IF a.e < b.e THEN -1
    ELSE IF a.e > b.e THEN 1
    ELSE BCmp(a.m, b.m)

\* -1, 0, 1 as a < b, a = b, a > b
FCmp(a, b) ==
    IF a.s # b.s THEN (IF a.m = <<>> /\ b.m = <<>> THEN 0 ELSE a.s)
    ELSE a.s * FCmpMag(a, b)

FLess(a, b) == FCmp(a, b) < 0

\* int(a): towards zero
FTrunc(a) ==
    IF a.e >= 0 THEN a.s * BToInt(BShl(a.m, a.e))
    ELSE a.s * BToInt(BShr(a.m, -a.e))

\* float.is_integer
FIsIntegral(a) == a.m = <<>> \/ a.e >= 0 \/ BLowZero(a.m, -a.e)

\* round(a): to the nearest int, ties to even
FRoundToInt(a) ==
    IF a.e >= 0 \/ a.m = <<>> THEN FTrunc(a)
    ELSE a.s * BToInt(BShrNearest(a.m, -a.e))

\* Python gives a non-zero remainder the sign of the divisor
PySign(mod, b) == IF mod.m # <<>> /\ mod.s # b.s THEN FAdd(mod, b) ELSE mod

\* a % b as Python's float.__mod__ computes it: C fmod, which is exact and has
\* the sign of a, then PySign
FPyMod(a, b) ==
    IF a.m = <<>> THEN FZero
    ELSE PySign(FRound(a.s,
                       BDivMod(BShl(a.m, a.e - (IF a.e < b.e THEN a.e ELSE b.e)),
                               BShl(b.m, b.e - (IF a.e < b.e THEN a.e ELSE b.e)))[2],
                       IF a.e < b.e THEN a.e ELSE b.e),
                b)

(***************************************************************************)
(* messages.py: Duration and MetricEntry                                   *)
(***************************************************************************)
\* the literals 1e3, 1e-6 and 1e6 of to_ms and from_ms; a decimal literal is
\* the float nearest to its value, as is the quotient of two exact floats
F1e3 == FInt(1000)

F1eNeg6 == FDiv(FInt(1), FInt(1000000))

F1e6 == FInt(1000000)

Duration(secs, nanos) == [secs |-> secs, nanos |-> nanos]

\* Duration.__add__: no carry from nanos into secs
DurationAdd(a, b) == Duration(a.secs + b.secs, a.nanos + b.nanos)

\* Duration.to_ms
to_ms(d) == FAdd(FMul(FInt(d.secs), F1e3), FMul(FInt(d.nanos), F1eNeg6))

\* Duration.from_ms
from_ms(ms) ==
    Duration(FTrunc(FDiv(ms, F1e3)), FTrunc(FMul(FPyMod(ms, F1e3), F1e6)))

(***************************************************************************)
(* stats.py                                                                *)
(***************************************************************************)
\* OUTLIER_THRESHOLD = 1.4826 * 10.0
OUTLIER_THRESHOLD == FMul(FDiv(FInt(14826), FInt(10000)), FInt(10))

\* EPSILON = np.finfo(float).eps = 2^-52
EPSILON == FRound(1, <<1>>, -52)

\* the literal 0.6745 of modified_zscores
F0_6745 == FDiv(FInt(6745), FInt(10000))

\* xs with x put before the first element greater than x
RECURSIVE Insert(_, _)
Insert(xs, x) ==
    IF xs = <<>> THEN <<x>>
    ELSE IF FLess(x, xs[1]) THEN <<x>> \o xs
    ELSE <<xs[1]>> \o Insert(Tail(xs), x)

RECURSIVE Sorted(_)
Sorted(xs) ==
    IF xs = <<>> THEN <<>> ELSE Insert(Sorted(Tail(xs)), xs[1])

\* the middle element of a sorted list, or the mean of the two middle elements
middle(srt) ==
    IF Len(srt) % 2 = 1 THEN srt[(Len(srt) + 1) \div 2]
    ELSE FDiv(FAdd(srt[Len(srt) \div 2], srt[Len(srt) \div 2 + 1]), FInt(2))

\* np.median of a non-empty list of floats
median(data) == middle(Sorted(data))

\* np.abs(data - median)
deviations(data, med) == [i \in 1..Len(data) |-> FAbs(FSub(data[i], med))]

\* mad if mad else EPSILON
or_epsilon(mad) == IF mad.m # <<>> THEN mad ELSE EPSILON

\* zscores with the bug that the median is not subtracted
zscores_unshifted(data, med, mad) ==
    [i \in 1..Len(data) |-> FDiv(FMul(F0_6745, data[i]), mad)]

\* 0.6745 * (data - median) / mad
zscores(data, med, mad) ==
    [i \in 1..Len(data) |-> FDiv(FMul(F0_6745, FSub(data[i], med)), mad)]

\* modified_zscores once the median is known
zscores_about(data, med) ==
    zscores(data, med, or_epsilon(median(deviations(data, med))))

modified_zscores(data) == zscores_about(data, median(data))

\* np.any(np.abs(z) > OUTLIER_THRESHOLD)
exceeds(z) == \E i \in 1..Len(z) : FLess(OUTLIER_THRESHOLD, FAbs(z[i]))

check_outliers(values) == exceeds(modified_zscores(values))

\* a list of Python ints as numpy converts it
Floats(ints) == [i \in 1..Len(ints) |-> FInt(ints[i])]

(***************************************************************************)
(* messages.py: the metrics payload.  An Optional value is <<>> for None   *)
(* and <<v>> for v.                                                        *)
(***************************************************************************)
None == <<>>

Some(v) == <<v>>

MetricEntry(start_rss, end_rss, duration) ==
    [start_rss |-> start_rss, end_rss |-> end_rss, duration |-> duration]

\* StageMetrics(metrics={}) and Metrics(metrics={})
EmptyMetrics == <<>>

StageMetricEntry(total, children) == [total |-> total, children |-> children]

\* MetricEntry.__add__
MetricEntryAdd(x, y) ==
    MetricEntry(Some(x.start_rss[1] + y.start_rss[1]),
                Some(x.end_rss[1] + y.end_rss[1]),
                DurationAdd(x.duration, y.duration))

\* the order of the keys of a Metrics dict: the order of the JSON object
StageOrder == <<"parse", "typecheck">>

\* the keys of a Metrics in dict order
RECURSIVE KeysFrom(_, _)
KeysFrom(metrics, i) ==
    IF i > Len(StageOrder) THEN <<>>
    ELSE IF StageOrder[i] \in DOMAIN metrics
    THEN <<StageOrder[i]>> \o KeysFrom(metrics, i + 1)
    ELSE KeysFrom(metrics, i + 1)

Keys(metrics) == KeysFrom(metrics, 1)

(***************************************************************************)
(* messages.py: find_message_in_stream.  The captured text is the sequence *)
(* of its lines; of a line the model keeps what the scan reads:            *)
(*   json     "blank"   empty or white space only (json.loads raises)      *)
(*            "invalid" not JSON (json.loads raises)                       *)
(*            "scalar"  JSON, but not an object (it has no .get)           *)
(*            "object"  a JSON object                                      *)
(*   payload  of an object, what .get("message") gives:                    *)
(*            "none"    no such key, "other" a value that is no Metrics,   *)
(*            "metrics" a value Metrics.model_validate accepts             *)
(*   metrics  the Metrics of a "metrics" payload                           *)
(***************************************************************************)
Line(json, payload, metrics) ==
    [json |-> json, payload |-> payload, metrics |-> metrics]

BlankLine == Line("blank", "none", EmptyMetrics)

TextLine == Line("invalid", "none", EmptyMetrics)

ScalarLine == Line("scalar", "none", EmptyMetrics)

NoMessageLine == Line("object", "none", EmptyMetrics)

OtherLine == Line("object", "other", EmptyMetrics)

MetricsLine(m) == Line("object", "metrics", m)

\* what a function call does: it returns a value or raises an exception
Return(v) == [tag |-> "return", value |-> v, exc |-> "none"]

Raise(e) == [tag |-> "raise", value |-> None, exc |-> e]

\* stream.rstrip(): the white space at the end of the text goes
RECURSIVE rstrip(_)
rstrip(stream) ==
    IF stream = <<>> THEN <<>>
    ELSE IF stream[Len(stream)].json = "blank"
    THEN rstrip(SubSeq(stream, 1, Len(stream) - 1))
    ELSE stream

\* stream.rstrip().split("\n"): the empty text splits into one empty line
split(stream) == IF rstrip(stream) = <<>> THEN <<BlankLine>> ELSE rstrip(stream)

\* exc.errors(): one dict per validation error, at least one
errors(line) == <<"dict">>

\* "\n".join(items) raises TypeError unless every item is a str
join(items) ==
    IF \A i \in 1..Len(items) : items[i] = "str"
    THEN Return(None) ELSE Raise("TypeError")

\* the body of the for loop for lines[i] and on
RECURSIVE scan(_, _, _)
scan(lines, i, message_name) ==
    IF i > Len(lines) THEN Return(None)
    ELSE IF lines[i].json \in {"blank", "invalid"} THEN Raise("JSONDecodeError")
    ELSE IF lines[i].json = "scalar" THEN Raise("AttributeError")
    ELSE IF message_name = "metrics"
    THEN IF lines[i].payload = "metrics" THEN Return(Some(lines[i].metrics))
         \* except ValidationError: the argument of LOG.error is built first
         ELSE IF join(errors(lines[i])).tag = "raise" THEN join(errors(lines[i]))
         ELSE scan(lines, i + 1, message_name)
    ELSE scan(lines, i + 1, message_name)

find_message_in_stream(stream, message_name) == scan(split(stream), 1, message_name)

(***************************************************************************)
(* cases.py: _single_run.  What the benchmarked process and the file       *)
(* system do in one run is an Outcome:                                     *)
(*   proc      "timeout" (handle.wait raises TimeoutExpired) or "exit"     *)
(*   exit_code the process's exit code                                     *)
(*   stdout    the captured standard output, as lines                      *)
(*   exe       the produced executable: whether the path exists, whether   *)
(*             it is a regular file, and the st_size of what is there      *)
(***************************************************************************)
TestCaseResult(case_id, exit_code, compile_metrics, exe_size) ==
    [case |-> case_id, exit_code |-> exit_code,
     compile_metrics |-> compile_metrics, exe_size |-> exe_size]

Outcome(proc, exit_code, stdout, exe) ==
    [proc |-> proc, exit_code |-> exit_code, stdout |-> stdout, exe |-> exe]

Exe(exists, is_file, st_size) ==
    [exists |-> exists, is_file |-> is_file, st_size |-> st_size]

\* exe_name.stat().st_size: stat raises for a path that does not exist
stat_size(exe) ==
    IF exe.exists THEN Return(exe.st_size) ELSE Raise("FileNotFoundError")

\* _single_run once the output has been searched for the metrics message
read_metrics(case_id, o, metrics) ==
    IF metrics.tag = "raise" THEN metrics
    ELSE IF metrics.value = None
    THEN Return(TestCaseResult(case_id, -1, None, None))
    \* a missing executable is logged, and stat() is called all the same
    ELSE IF stat_size(o.exe).tag = "raise" THEN stat_size(o.exe)
    ELSE Return(TestCaseResult(case_id, o.exit_code, metrics.value,
                               Some(stat_size(o.exe).value)))

_single_run(case_id, o) ==
    IF o.proc = "timeout"
    THEN Return(TestCaseResult(case_id, -1, None, None))
    ELSE IF o.exit_code # 0
    THEN Return(TestCaseResult(case_id, o.exit_code, None, None))
    ELSE read_metrics(case_id, o, find_message_in_stream(o.stdout, "metrics"))

(***************************************************************************)
(* cases.py: run_test_case, the part after the measured runs               *)
(***************************************************************************)
RECURSIVE FSum(_)
FSum(xs) == IF xs = <<>> THEN FZero ELSE FAdd(xs[1], FSum(Tail(xs)))

\* np.average of a list of Optional[int]: a None in the list makes the sum
\* raise TypeError
np_average(xs) ==
    IF \E i \in 1..Len(xs) : xs[i] = None THEN Raise("TypeError")
    ELSE Return(FDiv(FSum([i \in 1..Len(xs) |-> FInt(xs[i][1])]), FInt(Len(xs))))

\* pydantic's validation of a float for a field of type int: a float with a
\* fractional part is refused
validate_int(f) ==
    IF FIsIntegral(f) THEN Return(FTrunc(f)) ELSE Raise("ValidationError")

\* the indices of the results that have metrics
WithMetrics(results) == {i \in 1..Len(results) : results[i].compile_metrics # None}

Min(S) == CHOOSE x \in S : \A y \in S : x <= y

\* next(result for result in results if result.compile_metrics is not None)
first_with_metrics(results) == results[Min(WithMetrics(results))]

\* stage_metric_results with the bug that a run with metrics but without the
\* stage is counted with an entry of zeros
RECURSIVE every_run_counted(_, _)
every_run_counted(results, metric) ==
    IF results = <<>> THEN <<>>
    ELSE IF results[1].compile_metrics = None
    THEN every_run_counted(Tail(results), metric)
    ELSE IF metric \notin DOMAIN results[1].compile_metrics[1]
    THEN <<MetricEntry(Some(0), Some(0), Duration(0, 0))>>
             \o every_run_counted(Tail(results), metric)
    ELSE <<results[1].compile_metrics[1][metric].total>>
             \o every_run_counted(Tail(results), metric)

\* stage_metric_results: the totals of the stage, in run order, of the results
\* that have metrics and have the stage
RECURSIVE stage_metric_results(_, _)
stage_metric_results(results, metric) ==
    IF results = <<>> THEN <<>>
    ELSE IF results[1].compile_metrics = None
    THEN stage_metric_results(Tail(results), metric)
    ELSE IF metric \notin DOMAIN results[1].compile_metrics[1]
    THEN stage_metric_results(Tail(results), metric)
    ELSE <<results[1].compile_metrics[1][metric].total>>
             \o stage_metric_results(Tail(results), metric)

\* functools.reduce(lambda x, y: x + y, entries) for a non-empty list
RECURSIVE reduce_add(_)
reduce_add(entries) ==
    IF Len(entries) = 1 THEN entries[1]
    ELSE MetricEntryAdd(reduce_add(SubSeq(entries, 1, Len(entries) - 1)),
                        entries[Len(entries)])

\* the three lists handed to check_outliers
rss_sample(entries, field) ==
    [i \in 1..Len(entries) |->
        FInt(IF field = "start_rss" THEN entries[i].start_rss[1]
             ELSE entries[i].end_rss[1])]

duration_sample(entries) == [i \in 1..Len(entries) |-> to_ms(entries[i].duration)]

outlier_sample(entries, field) ==
    IF field = "duration" THEN duration_sample(entries)
    ELSE rss_sample(entries, field)

\* the three check_outliers calls of a stage, all made before any() looks at
\* them; numpy cannot take the median of a list that holds None
any_outliers(entries) ==
    IF \E i \in 1..Len(entries) :
           entries[i].start_rss = None \/ entries[i].end_rss = None
    THEN Raise("TypeError")
    ELSE Return(\E field \in {"start_rss", "end_rss", "duration"} :
                    check_outliers(outlier_sample(entries, field)))

\* round(total / n) for ints total and n
rounded_mean(total, n) == FRoundToInt(FDiv(FInt(total), FInt(n)))

\* the averaged total of a stage, of the sum total of its n entries
averaged(total, n) ==
    MetricEntry(Some(rounded_mean(total.start_rss[1], n)),
                Some(rounded_mean(total.end_rss[1], n)),
                from_ms(FDiv(to_ms(total.duration), FInt(n))))

average_entry(entries) == averaged(reduce_add(entries), Len(entries))

\* what run_test_case does from `assert results` on: it returns a value or
\* raises, and has logged the warnings warned
Ended(tag, value, exc_name, warned) ==
    [tag |-> tag, value |-> value, exc |-> exc_name, warned |-> warned]

RECURSIVE combine_stages(_, _, _, _, _)

\* checked_stage with the bug that a flagged stage ends the aggregation
flag_aborts(results, keys, k, metrics, warned, entries, flagged) ==
    IF flagged.tag = "raise" THEN Ended("raise", metrics, flagged.exc, warned)
    ELSE IF flagged.value THEN Ended("raise", metrics, "ValueError", warned)
    ELSE combine_stages(results, keys, k + 1,
             metrics @@ (keys[k] :>
                 StageMetricEntry(average_entry(entries), EmptyMetrics)),
             warned)

\* the stage keys[k] with its entries collected and checked for outliers
checked_stage(results, keys, k, metrics, warned, entries, flagged) ==
    IF flagged.tag = "raise" THEN Ended("raise", metrics, flagged.exc, warned)
    ELSE combine_stages(results, keys, k + 1,
             metrics @@ (keys[k] :>
                 StageMetricEntry(average_entry(entries), EmptyMetrics)),
             IF flagged.value THEN Append(warned, <<"outliers", keys[k]>>)
             ELSE warned)

\* the stage keys[k] with its entries collected
collected_stage(results, keys, k, metrics, warned, entries) ==
    checked_stage(results, keys, k, metrics, warned, entries, any_outliers(entries))

\* the body of the loop over the stages of first_with_metrics, for keys[k] and
\* on: the stages done so far are in metrics, the warnings logged in warned
combine_stages(results, keys, k, metrics, warned) ==
    IF k > Len(keys) THEN Ended("return", metrics, "none", warned)
    ELSE collected_stage(results, keys, k, metrics, warned,
                         stage_metric_results(results, keys[k]))

\* the end of run_test_case: done is what the loop over the stages did
staged(case_id, size, done) ==
    IF done.tag = "raise" THEN Ended("raise", None, done.exc, done.warned)
    ELSE Ended("return", TestCaseResult(case_id, 0, Some(done.value), Some(size)),
                  "none", done.warned)

\* combined_result is built: size is what the validation of exe_size did
sized(case_id, results, size) ==
    IF size.tag = "raise" THEN Ended("raise", None, size.exc, <<>>)
    ELSE staged(case_id, size.value,
                combine_stages(results,
                    Keys(first_with_metrics(results).compile_metrics[1]),
                    1, EmptyMetrics, <<>>))

\* avg is what np.average of the exe sizes did
averaged_size(case_id, results, avg) ==
    IF avg.tag = "raise" THEN Ended("raise", None, avg.exc, <<>>)
    ELSE sized(case_id, results, validate_int(avg.value))

\* combine with the bug that the last result is returned when no run has
\* metrics
combine_last(case_id, results) ==
    IF WithMetrics(results) = {}
    THEN Ended("return", results[Len(results)], "none", <<<<"skipping", "result">>>>)
    ELSE averaged_size(case_id, results,
             np_average([i \in 1..Len(results) |-> results[i].exe_size]))

\* run_test_case from `assert results` on
combine(case_id, results) ==
    IF WithMetrics(results) = {}
    THEN Ended("return", results[1], "none", <<<<"skipping", "result">>>>)
    ELSE averaged_size(case_id, results,
             np_average([i \in 1..Len(results) |-> results[i].exe_size]))

(***************************************************************************)
(* results.py: percentage_diff                                             *)
(***************************************************************************)
\* float("inf"), kept as 2^1024: greater than every finite float
FInf == [s |-> 1, m |-> BShl(<<1>>, MantBits - 1), e |-> 1024 - (MantBits - 1)]

\* percentage_diff with the bug that the difference is taken relative to right
percentage_of_right(left, right) ==
    IF left.m = <<>> \/ right.m = <<>> THEN FInf
    ELSE FMul(FDiv(FSub(right, left), right), FInt(100))

percentage_diff(left, right) ==
    IF left.m = <<>> THEN FInf
    ELSE FMul(FDiv(FSub(right, left), left), FInt(100))

(***************************************************************************)
(* results.py: ResultEntry                                                 *)
(***************************************************************************)
\* MetricEntry.diff: self - other; int - None raises TypeError
entry_diff_raises(x, y) ==
    x.start_rss = None \/ y.start_rss = None \/ x.end_rss = None \/ y.end_rss = None

\* Duration.__sub__: no borrow from secs into nanos
DurationSub(a, b) == Duration(a.secs - b.secs, a.nanos - b.nanos)

entry_diff(x, y) ==
    MetricEntry(Some(x.start_rss[1] - y.start_rss[1]),
                Some(x.end_rss[1] - y.end_rss[1]),
                DurationSub(x.duration, y.duration))

\* StageMetrics.diff: the stages of self, each looked up in other
children_diff_exc(a, b) ==
    IF \E c \in DOMAIN a : c \notin DOMAIN b THEN "KeyError"
    ELSE IF \E c \in DOMAIN a : entry_diff_raises(a[c], b[c]) THEN "TypeError"
    ELSE "none"

children_diff(a, b) == [c \in DOMAIN a |-> entry_diff(a[c], b[c])]

\* StageMetricEntry.diff: the total first, then the children
stage_diff_exc(a, b) ==
    IF entry_diff_raises(a.total, b.total) THEN "TypeError"
    ELSE children_diff_exc(a.children, b.children)

stage_diff(a, b) ==
    StageMetricEntry(entry_diff(a.total, b.total), children_diff(a.children, b.children))

\* the exception of the dict comprehension of construct_comparison: the stages
\* of original in dict order, each looked up in result
RECURSIVE metrics_diff_exc(_, _, _, _)
metrics_diff_exc(o, r, keys, k) ==
    IF k > Len(keys) THEN "none"
    ELSE IF keys[k] \notin DOMAIN r THEN "KeyError"
    ELSE IF stage_diff_exc(o[keys[k]], r[keys[k]]) # "none"
    THEN stage_diff_exc(o[keys[k]], r[keys[k]])
    ELSE metrics_diff_exc(o, r, keys, k + 1)

metrics_diff(o, r) == [stage \in DOMAIN o |-> stage_diff(o[stage], r[stage])]

\* size_diff with the bug that the difference is taken the other way round,
\* as the difference of the metrics is
size_diff_reversed(original, result) ==
    IF result.exe_size = None \/ original.exe_size = None THEN None
    ELSE Some(original.exe_size[1] - result.exe_size[1])

\* result.exe_size - original.exe_size, None when either is None
size_diff(original, result) ==
    IF result.exe_size = None \/ original.exe_size = None THEN None
    ELSE Some(result.exe_size[1] - original.exe_size[1])

ResultEntryComparison(compile_metrics, exe_size) ==
    [compile_metrics |-> compile_metrics, exe_size |-> exe_size]

construct_comparison(original, result) ==
    IF original.compile_metrics = None \/ result.compile_metrics = None
    THEN Return(None)
    ELSE IF metrics_diff_exc(original.compile_metrics[1], result.compile_metrics[1],
                             Keys(original.compile_metrics[1]), 1) # "none"
    THEN Raise(metrics_diff_exc(original.compile_metrics[1], result.compile_metrics[1],
                                Keys(original.compile_metrics[1]), 1))
    ELSE Return(Some(ResultEntryComparison(
                         metrics_diff(original.compile_metrics[1],
                                      result.compile_metrics[1]),
                         size_diff(original, result))))

\* ResultEntry(name=, original=, result=): model_post_init builds the comparison
with_comparison(name, original, result, comparison) ==
    IF comparison.tag = "raise" THEN comparison
    ELSE Return([name |-> name, original |-> original, result |-> result,
                 comparison |-> comparison.value])

ResultEntry(name, original, result) ==
    with_comparison(name, original, result, construct_comparison(original, result))

(***************************************************************************)
(* results.py: TestResults, over its list case_results                     *)
(***************************************************************************)
\* TestResults.stages: the stages of the first case's original result; there
\* is no attribute metrics on None
stages_exc(cr) ==
    IF cr # <<>> /\ cr[1].original.compile_metrics = None
    THEN "AttributeError" ELSE "none"

stages(cr) == IF cr = <<>> THEN <<>> ELSE Keys(cr[1].original.compile_metrics[1])

\* item.original if result == "left" else item.result
side_of(item, result) == IF result = "left" THEN item.original ELSE item.result

\* what get_metric appends for a stage entry: end_rss as a float, None when it
\* is None, or the duration in milliseconds
metric_of(entry, metric) ==
    IF metric = "time" THEN Some(to_ms(entry.total.duration))
    ELSE IF entry.total.end_rss = None THEN None
    ELSE Some(FInt(entry.total.end_rss[1]))

\* the loop of get_metric from case_results[i] on, metrics the list so far
RECURSIVE collect(_, _, _, _, _, _)
collect(cr, i, result, stage, metric, metrics) ==
    IF i > Len(cr) THEN Return(metrics)
    ELSE IF side_of(cr[i], result).compile_metrics = None THEN Raise("AssertionError")
    ELSE IF stage \notin DOMAIN side_of(cr[i], result).compile_metrics[1]
    THEN Raise("KeyError")
    ELSE collect(cr, i + 1, result, stage, metric,
                 Append(metrics,
                        metric_of(side_of(cr[i], result).compile_metrics[1][stage],
                                  metric)))

get_metric(cr, result, stage, metric) ==
    IF stages_exc(cr) # "none" THEN Raise(stages_exc(cr))
    ELSE IF \A k \in 1..Len(stages(cr)) : stages(cr)[k] # stage THEN Raise("ValueError")
    ELSE collect(cr, 1, result, stage, metric, <<>>)

\* the values of a list without None
values_of(xs) == [i \in 1..Len(xs) |-> xs[i][1]]

\* min(results) and max(results): the first least, the first greatest
RECURSIVE least(_, _, _)
least(xs, i, m) ==
    IF i > Len(xs) THEN m
    ELSE IF FLess(xs[i], m) THEN least(xs, i + 1, xs[i])
    ELSE least(xs, i + 1, m)

RECURSIVE greatest(_, _, _)
greatest(xs, i, m) ==
    IF i > Len(xs) THEN m
    ELSE IF FLess(m, xs[i]) THEN greatest(xs, i + 1, xs[i])
    ELSE greatest(xs, i + 1, m)

\* sum(results): from 0, left to right
RECURSIVE sum_from(_, _, _)
sum_from(xs, i, acc) ==
    IF i > Len(xs) THEN acc
    ELSE sum_from(xs, i + 1, FAdd(acc, xs[i]))

\* (min(results), max(results)) of what get_metric did; None is not ordered,
\* and min() of an empty list raises ValueError
domain_of(results) ==
    IF results.tag = "raise" THEN results
    ELSE IF results.value = <<>> THEN Raise("ValueError")
    ELSE IF \E i \in 1..Len(results.value) : results.value[i] = None
    THEN Raise("TypeError")
    ELSE Return(<<least(values_of(results.value), 2, results.value[1][1]),
                  greatest(values_of(results.value), 2, results.value[1][1])>>)

get_metric_domain(cr, result, stage, metric) ==
    domain_of(get_metric(cr, result, stage, metric))

\* sum(results) / len(results) of what get_metric did
avg_of(results) ==
    IF results.tag = "raise" THEN results
    ELSE IF \E i \in 1..Len(results.value) : results.value[i] = None
    THEN Raise("TypeError")
    ELSE IF results.value = <<>> THEN Raise("ZeroDivisionError")
    ELSE Return(FDiv(sum_from(values_of(results.value), 1, FZero),
                     FInt(Len(results.value))))

get_metric_avg(cr, result, stage, metric) ==
    avg_of(get_metric(cr, result, stage, metric))

\* percentage_diff(left_avg, right_avg)
avg_diff(left_avg, right_avg) ==
    IF left_avg.tag = "raise" THEN left_avg
    ELSE IF right_avg.tag = "raise" THEN right_avg
    ELSE Return(percentage_diff(left_avg.value, right_avg.value))

\* domain_diff with the bug that the least is compared with the greatest
domain_crossed(left_domain, right_domain) ==
    IF left_domain.tag = "raise" THEN left_domain
    ELSE IF right_domain.tag = "raise" THEN right_domain
    ELSE Return(<<percentage_diff(left_domain.value[1], right_domain.value[2]),
                  percentage_diff(left_domain.value[2], right_domain.value[1])>>)

\* (percentage_diff of the two least, percentage_diff of the two greatest)
domain_diff(left_domain, right_domain) ==
    IF left_domain.tag = "raise" THEN left_domain
    ELSE IF right_domain.tag = "raise" THEN right_domain
    ELSE Return(<<percentage_diff(left_domain.value[1], right_domain.value[1]),
                  percentage_diff(left_domain.value[2], right_domain.value[2])>>)

get_rss_avg(cr, stage) ==
    avg_diff(get_metric_avg(cr, "left", stage, "rss"),
             get_metric_avg(cr, "right", stage, "rss"))

get_rss_domain(cr, stage) ==
    domain_diff(get_metric_domain(cr, "left", stage, "rss"),
                get_metric_domain(cr, "right", stage, "rss"))

get_duration_avg(cr, stage) ==
    avg_diff(get_metric_avg(cr, "left", stage, "time"),
             get_metric_avg(cr, "right", stage, "time"))

get_duration_domain(cr, stage) ==
    domain_diff(get_metric_domain(cr, "left", stage, "time"),
                get_metric_domain(cr, "right", stage, "time"))

(***************************************************************************)
(* output.py: TabulatedOutput.print_info.  A row of the executable size    *)
(* table is kept as what its three cells show; a number formatted with     *)
(* .1f or .2f is kept as its count of tenths or hundredths                 *)
(***************************************************************************)
\* f"{a:.1f}" for scale 10 and f"{a:.2f}" for scale 100, for a >= 0: the
\* decimal nearest to the float's value, a tie to the even digit
fixed(a, scale) ==
    IF a = FInf THEN "inf"
    ELSE IF a.m = <<>> THEN 0
    ELSE IF a.e >= 0 THEN BToInt(BShl(BMulSmall(a.m, scale), a.e))
    ELSE BToInt(BShrNearest(BMulSmall(a.m, scale), -a.e))

Units == <<"", "Ki", "Mi", "Gi", "Ti", "Pi", "Ei", "Zi">>

\* the loop of sizeof_fmt from the unit Units[u] on
RECURSIVE sizeof_from(_, _)
sizeof_from(num, u) ==
    IF u > Len(Units) THEN <<fixed(FAbs(num), 10), "YiB">>
    ELSE IF FLess(FAbs(num), FInt(1024)) THEN <<fixed(FAbs(num), 10), Units[u] \o "B">>
    ELSE sizeof_from(FDiv(num, FInt(1024)), u + 1)

\* sizeof_fmt of an int that is not negative
sizeof_fmt(num) == sizeof_from(FInt(num), 1)

get_trend_icon(value) ==
    IF value = 0 THEN "up-down" ELSE IF value > 0 THEN "up" ELSE "down"

\* not left_size: None and 0 are both false
no_size(size) == size = None \/ size = Some(0)

Row(name, difference, value) ==
    [name |-> name, difference |-> difference, value |-> value]

\* the row of a case with both sizes
size_row(name, left_size, right_size) ==
    Row(name,
        <<get_trend_icon(right_size - left_size),
          sizeof_fmt(Abs(right_size - left_size))>>,
        <<get_trend_icon(right_size - left_size),
          fixed(FAbs(percentage_diff(FInt(left_size), FInt(right_size))), 100),
          sizeof_fmt(right_size)>>)

\* the rows added to exe_size_comparison_table for case_results[i] and on
RECURSIVE exe_size_rows(_, _)
exe_size_rows(cr, i) ==
    IF i > Len(cr) THEN <<>>
    ELSE IF no_size(cr[i].original.exe_size) /\ no_size(cr[i].result.exe_size)
    THEN exe_size_rows(cr, i + 1)
    ELSE IF no_size(cr[i].original.exe_size) \/ no_size(cr[i].result.exe_size)
    THEN <<Row(cr[i].name, "N/A", "N/A")>> \o exe_size_rows(cr, i + 1)
    ELSE <<size_row(cr[i].name, cr[i].original.exe_size[1], cr[i].result.exe_size[1])>>
             \o exe_size_rows(cr, i + 1)

\* print_info: the loop over the stages calls get_rss_stats and
\* get_duration_stats, which TestResults does not have, so with one stage or
\* more it raises AttributeError before the executable size table is built
print_info(cr) ==
    IF stages_exc(cr) # "none" THEN Raise(stages_exc(cr))
    ELSE IF stages(cr) # <<>> THEN Raise("AttributeError")
    ELSE Return(exe_size_rows(cr, 1))

(***************************************************************************)
(* The inputs the model runs on                                            *)
(***************************************************************************)
MaxWarmup == 2

MaxIterations == 3

MaxLines == 3

MaxSample == 4

Ms(n) == Duration(0, n * 1000000)

Stage(start_rss, end_rss, duration) ==
    StageMetricEntry(MetricEntry(start_rss, end_rss, duration), EmptyMetrics)

\* two stages
M1 == [parse     |-> Stage(Some(100), Some(200), Ms(10)),
       typecheck |-> Stage(Some(50), Some(60), Duration(0, 15))]

M2 == [parse |-> Stage(Some(200), Some(300), Ms(20))]

\* a stage with a child stage
M3 == [parse |-> StageMetricEntry(
                     MetricEntry(Some(101), Some(203), Duration(1, 1)),
                     [lex |-> MetricEntry(Some(1), Some(2), Duration(0, 7))])]

\* start_rss and end_rss are null
M4 == [parse |-> Stage(None, None, Duration(0, 500000))]

\* the test cases: only the fields run_test_case reads
Cases ==
    [warmup_iterations : 0..MaxWarmup, iterations : 1..MaxIterations]

\* enumerate(test_config.cases) numbers the cases from 0
FirstCaseId == 0

File(size) == Exe(TRUE, TRUE, size)

Missing == Exe(FALSE, FALSE, 0)

Outcomes ==
    { Outcome("timeout", 0, <<>>, Missing),
      Outcome("exit", 1, <<TextLine>>, Missing),
      Outcome("exit", 0, <<MetricsLine(M1)>>, File(1000)),
      Outcome("exit", 0, <<MetricsLine(M2), BlankLine>>, File(1300)),
      Outcome("exit", 0, <<MetricsLine(M3)>>, File(1000)),
      Outcome("exit", 0, <<MetricsLine(M4)>>, File(1001)),
      Outcome("exit", 0, <<TextLine, MetricsLine(M1)>>, File(1000)),
      Outcome("exit", 0, <<OtherLine, MetricsLine(M1)>>, File(1000)),
      Outcome("exit", 0, <<>>, Missing),
      Outcome("exit", 0, <<MetricsLine(M1)>>, Missing) }

LineKinds ==
    { BlankLine, TextLine, ScalarLine, NoMessageLine, OtherLine,
      MetricsLine(M1), MetricsLine(M2) }

\* all sequences over S of length at most n
RECURSIVE SeqsUpTo(_, _)
SeqsUpTo(S, n) ==
    IF n = 0 THEN {<<>>}
    ELSE LET shorter == SeqsUpTo(S, n - 1)
         IN  shorter \cup {Append(q, x) : q \in shorter, x \in S}

SampleValues == {9, 10, 11, 1000}

\* the two samples the specification names
Samples ==
    (SeqsUpTo(SampleValues, MaxSample) \ {<<>>})
        \cup {<<10, 11, 9, 10, 1000>>, <<10, 11, 9, 10, 10>>}

(***************************************************************************)
(* State                                                                   *)
(*   text, wanted, found   a call of find_message_in_stream: its two       *)
(*                         arguments and what it did                       *)
(*   sample, flagged       a call of check_outliers                        *)
(*   case .. calls         a call of run_test_case for one case and one    *)
(*                         build: pc is where it stands, warm_done the     *)
(*                         warmup runs done, results the list of the       *)
(*                         measured runs' results, ret what it returned,   *)
(*                         exc the exception that ended it, warnings the   *)
(*                         LOG.warn calls of run_test_case itself, calls   *)
(*                         the _single_run calls made, in order            *)
(*   twin                  a second call of run_test_case, fed the same    *)
(*                         measured runs                                   *)
(*   outcome, run          a call of _single_run: what the process and the *)
(*                         file system do, and what the call did           *)
(*   pair, pdiff           a call of percentage_diff: <<left, right>> and  *)
(*                         what it returned                                *)
(*   case_results          the case_results of a TestResults               *)
(*   got, stats, printed   what a call of get_metric, of the stage         *)
(*                         statistics and of print_info did                *)
(*   driver                the loop of compare over the cases              *)
(***************************************************************************)
VARIABLES text, wanted, found, sample, flagged,
          case, pc, warm_done, results, ret, exc, warnings, calls, twin,
          outcome, run, pair, pdiff, case_results, got, stats, printed, driver

vars == <<text, wanted, found, sample, flagged,
          case, pc, warm_done, results, ret, exc, warnings, calls, twin,
          outcome, run, pair, pdiff, case_results, got, stats, printed, driver>>

streamVars == <<text, wanted, found>>

statsVars == <<sample, flagged>>

runVars == <<case, pc, warm_done, results, ret, exc, warnings, calls>>

singleVars == <<outcome, run>>

diffVars == <<pair, pdiff>>

reportVars == <<case_results, got, stats, printed>>

Pending == [tag |-> "pending", value |-> None, exc |-> "none"]

NoCase == [warmup_iterations |-> 0, iterations |-> 1]

\* a call of run_test_case as one value
Call(c, p, w, rs, rt, e, wn, cl) ==
    [case |-> c, pc |-> p, warm_done |-> w, results |-> rs, ret |-> rt,
     exc |-> e, warnings |-> wn, calls |-> cl]

\* run_test_case entered: range(0) has no iteration
Entered(c) ==
    Call(c, IF c.warmup_iterations > 0 THEN "warmup" ELSE "measure",
         0, <<>>, None, "none", <<>>, <<>>)

Idle == Call(NoCase, "idle", 0, <<>>, None, "none", <<>>, <<>>)

This == Call(case, pc, warm_done, results, ret, exc, warnings, calls)

\* a warmup run done: its result r is dropped, an exception ends run_test_case
warmed(st, r) ==
    IF r.tag = "raise"
    THEN [st EXCEPT !.pc = "raised", !.exc = r.exc,
                    !.calls = Append(@, "warmup")]
    ELSE [st EXCEPT !.warm_done = @ + 1,
                    !.pc = IF st.warm_done + 1 < st.case.warmup_iterations
                           THEN "warmup" ELSE "measure",
                    !.calls = Append(@, "warmup")]

\* warmup_run with the bug that the result of a warmup run is kept with the
\* measured ones
warmup_kept(st, o) ==
    IF _single_run(FirstCaseId, o).tag = "raise"
    THEN warmed(st, _single_run(FirstCaseId, o))
    ELSE [warmed(st, _single_run(FirstCaseId, o))
              EXCEPT !.results = Append(@, _single_run(FirstCaseId, o).value)]

\* one turn of `for _ in range(case.warmup_iterations)`
warmup_run(st, o) == warmed(st, _single_run(FirstCaseId, o))

\* run_test_case ends with what combine did
finished(st, done) ==
    IF done.tag = "raise"
    THEN [st EXCEPT !.pc = "raised", !.exc = done.exc, !.warnings = done.warned]
    ELSE [st EXCEPT !.pc = "done", !.ret = Some(done.value),
                    !.warnings = done.warned]

\* results.append(r)
appended(st, r) ==
    [st EXCEPT !.results = Append(@, r), !.calls = Append(@, "measured")]

\* a measured run done: an exception ends run_test_case, a result is appended,
\* and after the last turn comes the rest of run_test_case
measured(st, r) ==
    IF r.tag = "raise"
    THEN [st EXCEPT !.pc = "raised", !.exc = r.exc,
                    !.calls = Append(@, "measured")]
    ELSE IF Len(st.results) + 1 < st.case.iterations THEN appended(st, r.value)
    ELSE finished(appended(st, r.value),
                  combine(FirstCaseId, Append(st.results, r.value)))

\* one turn of `for i in range(case.iterations)`
measured_run(st, o) == measured(st, _single_run(FirstCaseId, o))

Becomes(st) ==
    /\ case' = st.case
    /\ pc' = st.pc
    /\ warm_done' = st.warm_done
    /\ results' = st.results
    /\ ret' = st.ret
    /\ exc' = st.exc
    /\ warnings' = st.warnings
    /\ calls' = st.calls

StartsAs(st) ==
    /\ case = st.case
    /\ pc = st.pc
    /\ warm_done = st.warm_done
    /\ results = st.results
    /\ ret = st.ret
    /\ exc = st.exc
    /\ warnings = st.warnings
    /\ calls = st.calls

\* the parts of the state a specification does not use
StreamIdle == text = <<>> /\ wanted = "metrics" /\ found = Pending

StatsIdle == sample = <<>> /\ flagged = None

CaseIdle == StartsAs(Idle) /\ twin = Idle

SingleIdle == outcome = None /\ run = Pending

DiffIdle == pair = None /\ pdiff = None

ReportIdle == case_results = <<>> /\ got = None /\ stats = None /\ printed = None

DriverIdle == driver = None

(***************************************************************************)
(* run_test_case for one case and one build                                *)
(***************************************************************************)
Init ==
    /\ StreamIdle /\ StatsIdle /\ SingleIdle /\ DiffIdle /\ ReportIdle /\ DriverIdle
    /\ \E c \in Cases : StartsAs(Entered(c))
    /\ twin = Idle

WarmupRun ==
    /\ pc = "warmup"
    /\ \E o \in Outcomes : Becomes(warmup_run(This, o))
    /\ UNCHANGED <<streamVars, statsVars, twin,
                   singleVars, diffVars, reportVars, driver>>

MeasuredRun ==
    /\ pc = "measure"
    /\ \E o \in Outcomes : Becomes(measured_run(This, o))
    /\ UNCHANGED <<streamVars, statsVars, twin,
                   singleVars, diffVars, reportVars, driver>>

Next == WarmupRun \/ MeasuredRun

Spec == Init /\ [][Next]_vars

(***************************************************************************)
(* Two calls of run_test_case, each with its own warmup runs, whose        *)
(* measured runs meet the same outcomes                                    *)
(***************************************************************************)
InitPair ==
    /\ StreamIdle /\ StatsIdle /\ SingleIdle /\ DiffIdle /\ ReportIdle /\ DriverIdle
    /\ \E c \in Cases : StartsAs(Entered(c))
    /\ \E w \in 0..MaxWarmup :
           twin = Entered([warmup_iterations |-> w, iterations |-> case.iterations])

TwinWarmupRun ==
    /\ twin.pc = "warmup"
    /\ \E o \in Outcomes : twin' = warmup_run(twin, o)
    /\ UNCHANGED <<streamVars, statsVars, runVars,
                   singleVars, diffVars, reportVars, driver>>

PairMeasuredRun ==
    /\ pc = "measure"
    /\ twin.pc = "measure"
    /\ \E o \in Outcomes :
           /\ Becomes(measured_run(This, o))
           /\ twin' = measured_run(twin, o)
    /\ UNCHANGED <<streamVars, statsVars, singleVars, diffVars, reportVars, driver>>

NextPair == WarmupRun \/ TwinWarmupRun \/ PairMeasuredRun

SpecPair == InitPair /\ [][NextPair]_vars

(***************************************************************************)
(* find_message_in_stream on every text of at most MaxLines lines          *)
(***************************************************************************)
InitStream ==
    /\ text \in SeqsUpTo(LineKinds, MaxLines)
    /\ wanted = "metrics"
    /\ found = Pending
    /\ StatsIdle /\ CaseIdle /\ SingleIdle /\ DiffIdle /\ ReportIdle /\ DriverIdle

FindMessage ==
    /\ found = Pending
    /\ found' = find_message_in_stream(text, wanted)
    /\ UNCHANGED <<text, wanted, statsVars, runVars, twin,
                   singleVars, diffVars, reportVars, driver>>

NextStream == FindMessage

SpecStream == InitStream /\ [][NextStream]_vars

(***************************************************************************)
(* check_outliers on every sample of Samples                               *)
(***************************************************************************)
InitStats ==
    /\ sample \in Samples
    /\ flagged = None
    /\ StreamIdle /\ CaseIdle /\ SingleIdle /\ DiffIdle /\ ReportIdle /\ DriverIdle

CheckOutliers ==
    /\ flagged = None
    /\ flagged' = Some(check_outliers(Floats(sample)))
    /\ UNCHANGED <<sample, streamVars, runVars, twin,
                   singleVars, diffVars, reportVars, driver>>

NextStats == CheckOutliers

SpecStats == InitStats /\ [][NextStats]_vars

(***************************************************************************)
(* _single_run on every outcome of RunOutcomes                             *)
(***************************************************************************)
\* a directory where the executable is expected: stat() gives its size
Directory == Exe(TRUE, FALSE, 4096)

RunOutcomes ==
    { Outcome(pe[1], pe[2], out, exe) :
          pe \in {<<"timeout", 0>>, <<"exit", 0>>, <<"exit", 1>>},
          out \in SeqsUpTo(LineKinds, MaxLines),
          exe \in {File(1000), Missing, Directory} }

InitSingle ==
    /\ outcome \in RunOutcomes
    /\ run = Pending
    /\ StreamIdle /\ StatsIdle /\ CaseIdle /\ DiffIdle /\ ReportIdle /\ DriverIdle

SingleRun ==
    /\ run = Pending
    /\ run' = _single_run(FirstCaseId, outcome)
    /\ UNCHANGED <<outcome, streamVars, statsVars, runVars, twin,
                   diffVars, reportVars, driver>>

NextSingle == SingleRun

SpecSingle == InitSingle /\ [][NextSingle]_vars

(***************************************************************************)
(* main.py: compare, from the loop over the cases on.  driver is           *)
(*   cases        test_config.cases                                        *)
(*   case_id      the case the loop stands at, counted from 0              *)
(*   pc           "left" or "right": the run_test_case call to make next;  *)
(*                "raised": compare ended with the exception exc           *)
(*   left_result  what the left call of this case returned                 *)
(*   results      the list results                                         *)
(*   benchmarked  the run_test_case calls that returned, in order, each    *)
(*                with the exit_code of its result                         *)
(*   looped       whether the loop over the cases came to its end          *)
(***************************************************************************)
\* run_test_case as a function of the outcomes its runs meet, in order
RECURSIVE run_from(_, _)
run_from(st, os) ==
    IF st.pc = "warmup" THEN run_from(warmup_run(st, os[1]), Tail(os))
    ELSE IF st.pc = "measure" THEN run_from(measured_run(st, os[1]), Tail(os))
    ELSE st

returned(st) == IF st.pc = "done" THEN Return(st.ret[1]) ELSE Raise(st.exc)

run_test_case(c, os) == returned(run_from(Entered(c), os))

MaxCases == 2

TestCase(name, warmup_iterations, iterations) ==
    [name |-> name, warmup_iterations |-> warmup_iterations, iterations |-> iterations]

\* the case files: up to MaxCases cases of one run each, with or without a
\* warmup run
CaseFiles ==
    { [i \in 1..n |-> TestCase(i, w, 1)] : n \in 0..MaxCases, w \in {0, 1} }

DriverOutcomes ==
    { Outcome("exit", 1, <<TextLine>>, Missing),
      Outcome("exit", 0, <<MetricsLine(M1)>>, File(1000)),
      Outcome("exit", 0, <<MetricsLine(M2)>>, File(1300)),
      Outcome("exit", 0, <<>>, Missing) }

\* the outcomes of the runs of one run_test_case call
RunsOf(c) ==
    { os \in SeqsUpTo(DriverOutcomes, c.warmup_iterations + c.iterations) :
          Len(os) = c.warmup_iterations + c.iterations }

\* results_obj = TestResults(results=results): TestResults has no field
\* results and its field case_results is required, so the validation fails
after_loop(d) == [d EXCEPT !.pc = "raised", !.exc = "ValidationError", !.looped = TRUE]

\* the loop goes to the next case, or ends
next_case(d) ==
    IF d.case_id + 1 < Len(d.cases)
    THEN [d EXCEPT !.pc = "left", !.case_id = @ + 1]
    ELSE after_loop(d)

\* compare at the loop over the cases
at_loop(cases) ==
    [cases |-> cases, case_id |-> 0, pc |-> "left", left_result |-> None,
     results |-> <<>>, benchmarked |-> <<>>, exc |-> "none", looped |-> FALSE]

entered_loop(cases) == IF cases = <<>> THEN after_loop(at_loop(cases)) ELSE at_loop(cases)

\* left_result = run_test_case(...): r is what the call did
left_run(d, r) ==
    IF r.tag = "raise" THEN [d EXCEPT !.pc = "raised", !.exc = r.exc]
    ELSE [d EXCEPT !.pc = "right", !.left_result = Some(r.value),
                   !.benchmarked = Append(@, <<d.case_id, "left", r.value.exit_code>>)]

\* results.append(ResultEntry(...)): entry is what the construction did
entry_appended(d, entry) ==
    IF entry.tag = "raise" THEN [d EXCEPT !.pc = "raised", !.exc = entry.exc]
    ELSE next_case([d EXCEPT !.results = Append(@, entry.value)])

\* compared with the bug that the exit code of the right result is not looked at
compared_left_only(d, right_result) ==
    IF d.left_result[1].exit_code # 0 THEN next_case(d)
    ELSE entry_appended(d, ResultEntry(d.cases[d.case_id + 1].name,
                                       d.left_result[1], right_result))

\* the two exit_code checks and the append
compared(d, right_result) ==
    IF d.left_result[1].exit_code # 0 THEN next_case(d)
    ELSE IF right_result.exit_code # 0 THEN next_case(d)
    ELSE entry_appended(d, ResultEntry(d.cases[d.case_id + 1].name,
                                       d.left_result[1], right_result))

\* right_result = run_test_case(...) and the rest of the loop body
right_run(d, r) ==
    IF r.tag = "raise" THEN [d EXCEPT !.pc = "raised", !.exc = r.exc]
    ELSE compared([d EXCEPT !.benchmarked =
                                Append(@, <<d.case_id, "right", r.value.exit_code>>)],
                  r.value)

InitCompare ==
    /\ \E cases \in CaseFiles : driver = entered_loop(cases)
    /\ StreamIdle /\ StatsIdle /\ CaseIdle /\ SingleIdle /\ DiffIdle /\ ReportIdle

CompareLeft ==
    /\ driver.pc = "left"
    /\ \E os \in RunsOf(driver.cases[driver.case_id + 1]) :
           driver' = left_run(driver,
                              run_test_case(driver.cases[driver.case_id + 1], os))
    /\ UNCHANGED <<streamVars, statsVars, runVars, twin,
                   singleVars, diffVars, reportVars>>

CompareRight ==
    /\ driver.pc = "right"
    /\ \E os \in RunsOf(driver.cases[driver.case_id + 1]) :
           driver' = right_run(driver,
                               run_test_case(driver.cases[driver.case_id + 1], os))
    /\ UNCHANGED <<streamVars, statsVars, runVars, twin,
                   singleVars, diffVars, reportVars>>

NextCompare == CompareLeft \/ CompareRight

SpecCompare == InitCompare /\ [][NextCompare]_vars

(***************************************************************************)
(* percentage_diff on every pair of DiffHalves: pair[1] / 2 is left and    *)
(* pair[2] / 2 is right, so that means of two ints are among the arguments *)
(***************************************************************************)
DiffHalves == {-2400, -3, 0, 1, 3, 7, 14, 301, 2000, 2400}

\* n / 2 as a float: exact
Half(n) == FDiv(FInt(n), FInt(2))

InitDiff ==
    /\ pair \in DiffHalves \X DiffHalves
    /\ pdiff = None
    /\ StreamIdle /\ StatsIdle /\ CaseIdle /\ SingleIdle /\ ReportIdle /\ DriverIdle

PercentageDiff ==
    /\ pdiff = None
    /\ pdiff' = Some(percentage_diff(Half(pair[1]), Half(pair[2])))
    /\ UNCHANGED <<pair, streamVars, statsVars, runVars, twin,
                   singleVars, reportVars, driver>>

NextDiff == PercentageDiff

SpecDiff == InitDiff /\ [][NextDiff]_vars

(***************************************************************************)
(* TestResults and print_info on lists of at most MaxEntries entries       *)
(***************************************************************************)
MaxEntries == 2

M5 == [parse     |-> Stage(Some(110), Some(260), Ms(12)),
       typecheck |-> Stage(Some(50), Some(45), Duration(0, 30))]

\* results with metrics and a size
RA == TestCaseResult(FirstCaseId, 0, Some(M1), Some(1000))

RB == TestCaseResult(FirstCaseId, 0, Some(M5), Some(1200))

RC == TestCaseResult(FirstCaseId, 0, Some(M2), Some(1300))

\* a failed run: neither metrics nor a size
RF == TestCaseResult(FirstCaseId, 1, None, None)

\* metrics and no size
RN == TestCaseResult(FirstCaseId, 0, Some(M2), None)

\* metrics without any stage
RE == TestCaseResult(FirstCaseId, 0, Some(EmptyMetrics), Some(1000))

RG == TestCaseResult(FirstCaseId, 0, Some(EmptyMetrics), Some(1200))

RH == TestCaseResult(FirstCaseId, 0, Some(EmptyMetrics), None)

\* <<original, result>> of the entries
EntryPairs ==
    { <<RA, RB>>, <<RB, RA>>, <<RC, RA>>, <<RA, RF>>, <<RF, RF>>, <<RN, RC>>,
      <<RE, RG>>, <<RH, RG>> }

\* the list of the entries of the pairs ps, the cases named by their number
EntriesOf(ps) == [i \in 1..Len(ps) |-> ResultEntry(i, ps[i][1], ps[i][2]).value]

Called(fn, args, out) == [fn |-> fn, args |-> args, out |-> out]

InitReport ==
    /\ \E ps \in SeqsUpTo(EntryPairs, MaxEntries) : case_results = EntriesOf(ps)
    /\ got = None /\ stats = None /\ printed = None
    /\ StreamIdle /\ StatsIdle /\ CaseIdle /\ SingleIdle /\ DiffIdle /\ DriverIdle

NothingCalled == got = None /\ stats = None /\ printed = None

GetMetric ==
    /\ NothingCalled
    /\ \E result \in {"left", "right"}, stage \in {"parse", "typecheck", "link"},
          metric \in {"rss", "time"} :
           got' = Some(Called("get_metric", <<result, stage, metric>>,
                              get_metric(case_results, result, stage, metric)))
    /\ UNCHANGED <<case_results, stats, printed, streamVars, statsVars, runVars,
                   twin, singleVars, diffVars, driver>>

\* the call of one of the four stage statistics
stage_stat(fn, cr, stage) ==
    IF fn = "get_rss_avg" THEN get_rss_avg(cr, stage)
    ELSE IF fn = "get_rss_domain" THEN get_rss_domain(cr, stage)
    ELSE IF fn = "get_duration_avg" THEN get_duration_avg(cr, stage)
    ELSE get_duration_domain(cr, stage)

StageStats ==
    /\ NothingCalled
    /\ \E stage \in {"parse", "typecheck"},
          fn \in {"get_rss_avg", "get_rss_domain",
                  "get_duration_avg", "get_duration_domain"} :
           stats' = Some(Called(fn, stage, stage_stat(fn, case_results, stage)))
    /\ UNCHANGED <<case_results, got, printed, streamVars, statsVars, runVars,
                   twin, singleVars, diffVars, driver>>

PrintInfo ==
    /\ NothingCalled
    /\ printed' = Some(print_info(case_results))
    /\ UNCHANGED <<case_results, got, stats, streamVars, statsVars, runVars,
                   twin, singleVars, diffVars, driver>>

NextReport == GetMetric \/ StageStats \/ PrintInfo

SpecReport == InitReport /\ [][NextReport]_vars

(***************************************************************************)
(* The claims                                                              *)
(***************************************************************************)
\* C1: find_message_in_stream never raises for malformed input: a line that is
\* not valid JSON or whose payload fails validation is skipped, so a text
\* whose first line is not JSON and whose second line is a valid metrics
\* message returns the Metrics of the second line.
C1_SkipsMalformedLines ==
    (found # Pending /\ wanted = "metrics") =>
        /\ found.tag = "return"
        /\ (Len(text) = 2 /\ text[1] = TextLine /\ text[2].payload = "metrics")
               => found.value = Some(text[2].metrics)

\* C2: for a text of one or more well-formed message lines, find_message_in_stream returns
\* the Metrics of the first line whose payload validates, and None exactly
\* when no line validates.
C2_FirstValidLineWins ==
    (/\ found # Pending
     /\ wanted = "metrics"
     /\ text # <<>>
     /\ \A i \in 1..Len(text) :
            text[i].json = "object" /\ text[i].payload \in {"other", "metrics"}) =>
        IF \E i \in 1..Len(text) : text[i].payload = "metrics"
        THEN found = Return(Some(
                 text[Min({i \in 1..Len(text) : text[i].payload = "metrics"})].metrics))
        ELSE found = Return(None)

\* C3: run_test_case makes exactly warmup_iterations warmup runs and then
\* exactly iterations measured runs; no run, whatever its outcome, keeps the
\* remaining runs from being made, and none is made twice.
C3_EveryRunIsMade ==
    pc \in {"done", "raised"} =>
        calls = [i \in 1..(case.warmup_iterations + case.iterations) |->
                    IF i <= case.warmup_iterations THEN "warmup" ELSE "measured"]

\* C4: when no measured run produced compile_metrics, run_test_case returns
\* the first measured run's result as it is, with compile_metrics and exe_size
\* None, whatever the number of iterations.
C4_FirstResultWhenNoMetrics ==
    (/\ pc \in {"done", "raised"}
     /\ Len(results) = case.iterations
     /\ WithMetrics(results) = {}) =>
        /\ pc = "done"
        /\ ret = Some(results[1])
        /\ results[1].compile_metrics = None
        /\ results[1].exe_size = None

\* two iterations, both without metrics and with different exit codes
C4_Witness ==
    /\ pc = "done"
    /\ case.iterations = 2
    /\ WithMetrics(results) = {}
    /\ results[1].exit_code = 1
    /\ results[2].exit_code = -1
    /\ ret = Some(results[1])

\* C5: whenever at least one measured run succeeded, run_test_case returns a
\* result with exit_code 0 whose exe_size is the mean of the exe_size of the
\* successful runs alone, also when other measured runs failed or timed out.
C5_MeanSizeOfSuccessfulRuns ==
    (/\ pc \in {"done", "raised"}
     /\ Len(results) = case.iterations
     /\ WithMetrics(results) # {}) =>
        LET RECURSIVE SizeSum(_)
            SizeSum(S) ==
                IF S = {} THEN 0
                ELSE results[Min(S)].exe_size[1] + SizeSum(S \ {Min(S)})
            n == Cardinality(WithMetrics(results))
        IN  /\ pc = "done"
            /\ ret[1].exit_code = 0
            /\ ret[1].exe_size # None
            /\ Abs(n * ret[1].exe_size[1] - SizeSum(WithMetrics(results))) < n

\* C6: the aggregated Metrics has the stage keys of the first successful
\* measured run, and every stage is averaged over the successful runs that
\* have the stage: a run without metrics or without the stage is in neither
\* the sum nor the divisor.
C6_StageSamples ==
    (pc = "done" /\ WithMetrics(results) # {}) =>
        LET agg    == ret[1].compile_metrics[1]
            Has(k) == {i \in WithMetrics(results) :
                          k \in DOMAIN results[i].compile_metrics[1]}
            Rss(i, k, f) ==
                IF f = "start_rss" THEN results[i].compile_metrics[1][k].total.start_rss[1]
                ELSE results[i].compile_metrics[1][k].total.end_rss[1]
            RECURSIVE RssSum(_, _, _)
            RssSum(S, k, f) ==
                IF S = {} THEN 0 ELSE Rss(Min(S), k, f) + RssSum(S \ {Min(S)}, k, f)
            Mean(x, S, k, f) ==
                2 * Abs(Cardinality(S) * x - RssSum(S, k, f)) <= Cardinality(S)
        IN  /\ DOMAIN agg = DOMAIN results[Min(WithMetrics(results))].compile_metrics[1]
            /\ \A k \in DOMAIN agg :
                   /\ Mean(agg[k].total.start_rss[1], Has(k), k, "start_rss")
                   /\ Mean(agg[k].total.end_rss[1], Has(k), k, "end_rss")
            \* a further run without metrics changes nothing in the stages
            /\ combine_stages(<<TestCaseResult(FirstCaseId, 1, None, None)>> \o results,
                              Keys(results[Min(WithMetrics(results))].compile_metrics[1]),
                              1, EmptyMetrics, <<>>).value = agg

\* two runs, the second without the stage typecheck: parse is averaged over
\* two runs and typecheck over one
C6_Witness ==
    /\ pc = "done"
    /\ Len(results) = 2
    /\ WithMetrics(results) = {1, 2}
    /\ "typecheck" \in DOMAIN results[1].compile_metrics[1]
    /\ "typecheck" \notin DOMAIN results[2].compile_metrics[1]
    /\ ret[1].compile_metrics[1]["parse"].total.start_rss = Some(150)
    /\ ret[1].compile_metrics[1]["typecheck"].total.start_rss = Some(50)

\* C7: for each stage the aggregated entry has start_rss and end_rss equal to
\* the mean of the sample rounded to the nearest integer and duration equal to
\* the mean duration (to the nanosecond); two runs with {100, 200, 10ms} and
\* {200, 300, 20ms} aggregate to {150, 250, 15ms}.
C7_MeanOfSample ==
    (pc = "done" /\ WithMetrics(results) # {}) =>
        LET agg       == ret[1].compile_metrics[1]
            Nanos(d)  == BAdd(BMul(BFromInt(d.secs), BFromInt(1000000000)),
                              BFromInt(d.nanos))
            Total(k)  == reduce_add(stage_metric_results(results, k))
            Count(k)  == Len(stage_metric_results(results, k))
            Near(x, sum, n) == 2 * Abs(n * x - sum) <= n
            \* |n * a - b| < n
            Within(a, b, n) ==
                /\ BCmp(BAdd(BMulSmall(a, n), BFromInt(n)), b) > 0
                /\ BCmp(BAdd(b, BFromInt(n)), BMulSmall(a, n)) > 0
        IN  /\ \A k \in DOMAIN agg :
                   /\ Near(agg[k].total.start_rss[1], Total(k).start_rss[1], Count(k))
                   /\ Near(agg[k].total.end_rss[1], Total(k).end_rss[1], Count(k))
                   /\ Within(Nanos(agg[k].total.duration), Nanos(Total(k).duration),
                             Count(k))
            /\ (/\ Len(results) = 2
                /\ WithMetrics(results) = {1, 2}
                /\ results[1].compile_metrics[1]["parse"].total
                       = MetricEntry(Some(100), Some(200), Ms(10))
                /\ results[2].compile_metrics[1]["parse"].total
                       = MetricEntry(Some(200), Some(300), Ms(20)))
                   => agg["parse"].total = MetricEntry(Some(150), Some(250), Ms(15))

\* C8: with one iteration, for every stage the aggregated total equals the one
\* measured run's total field for field: start_rss, end_rss, duration.secs and
\* duration.nanos.
C8_SingleRunUnchanged ==
    (pc = "done" /\ case.iterations = 1 /\ WithMetrics(results) # {}) =>
        \A k \in DOMAIN results[1].compile_metrics[1] :
            ret[1].compile_metrics[1][k].total = results[1].compile_metrics[1][k].total

\* C9: what run_test_case returns does not depend on the warmup runs: two calls
\* whose measured runs meet the same outcomes return the same result, however
\* many warmup runs each made and whatever these did.
C9_WarmupIndependence ==
    (pc = "done" /\ twin.pc = "done") =>
        /\ ret = twin.ret
        /\ warnings = twin.warnings

\* one call made two warmup runs and the other none, and both aggregated
C9_Witness ==
    /\ pc = "done"
    /\ twin.pc = "done"
    /\ warm_done = 2
    /\ twin.warm_done = 0
    /\ WithMetrics(results) # {}
    /\ ret = twin.ret

\* C10: check_outliers is true for [10, 11, 9, 10, 1000] and false for a
\* sample in which every value lies within 1 of the median, such as
\* [10, 11, 9, 10, 10].
C10_FlagsFarValuesOnly ==
    flagged # None =>
        LET n       == Len(sample)
            Rank(i) == Cardinality({j \in 1..n : \/ sample[j] < sample[i]
                                                 \/ sample[j] = sample[i] /\ j < i})
            At(r)   == sample[CHOOSE i \in 1..n : Rank(i) = r - 1]
            \* twice the median
            med2    == IF n % 2 = 1 THEN 2 * At((n + 1) \div 2)
                       ELSE At(n \div 2) + At(n \div 2 + 1)
        IN  /\ sample = <<10, 11, 9, 10, 1000>> => flagged = Some(TRUE)
            /\ (\A i \in 1..n : Abs(2 * sample[i] - med2) <= 2) => flagged = Some(FALSE)

\* C11: for every non-empty sample of identical values check_outliers returns
\* false: the median absolute deviation is 0, EPSILON takes its place, and
\* every modified z-score is 0.
C11_IdenticalValuesNeverFlagged ==
    (flagged # None /\ \A i \in 1..Len(sample) : sample[i] = sample[1]) =>
        /\ flagged = Some(FALSE)
        /\ median(deviations(Floats(sample), median(Floats(sample)))) = FZero
        /\ \A i \in 1..Len(sample) : modified_zscores(Floats(sample))[i] = FZero

\* four times the same value, looked at and not flagged
C11_Witness ==
    /\ sample = <<1000, 1000, 1000, 1000>>
    /\ flagged = Some(FALSE)

C13_ResultPerCause ==
    run # Pending =>
        LET Valid == \E i \in 1..Len(outcome.stdout) : outcome.stdout[i].payload = "metrics"
        IN  /\ run.tag = "return"
            /\ outcome.proc = "timeout"
                   => run.value = TestCaseResult(FirstCaseId, -1, None, None)
            /\ (outcome.proc = "exit" /\ outcome.exit_code # 0)
                   => run.value = TestCaseResult(FirstCaseId, outcome.exit_code, None, None)
            /\ (outcome.proc = "exit" /\ outcome.exit_code = 0 /\ ~Valid)
                   => run.value = TestCaseResult(FirstCaseId, -1, None, None)
            /\ (outcome.proc = "exit" /\ outcome.exit_code = 0 /\ Valid)
                   => /\ run.value.exit_code = 0
                      /\ run.value.compile_metrics # None
                      /\ run.value.exe_size # None

\* C14: a run that exits 0 and emits a valid metrics message while the
\* expected executable is not on disk still returns a result with exit_code 0
\* and its compile_metrics.
C14_MissingExecutableOnlyLogged ==
    (/\ run # Pending
     /\ outcome.proc = "exit"
     /\ outcome.exit_code = 0
     /\ outcome.stdout # <<>>
     /\ outcome.stdout[1].payload = "metrics"
     /\ ~outcome.exe.exists) =>
        /\ run.tag = "return"
        /\ run.value.exit_code = 0
        /\ run.value.compile_metrics = Some(outcome.stdout[1].metrics)

\* C15: compare never halts on the failure of one case: both builds are
\* benchmarked on every case, in case order and the left build before the
\* right one, and the list of results holds exactly the cases for which both
\* builds returned exit_code 0, in case order.
C15_EveryCaseBenchmarked ==
    driver.pc = "raised" =>
        LET n == Len(driver.cases)
            Both(i) == /\ driver.benchmarked[2 * i - 1][3] = 0
                       /\ driver.benchmarked[2 * i][3] = 0
            RECURSIVE Names(_)
            Names(i) ==
                IF i > n THEN <<>>
                ELSE IF Both(i) THEN <<driver.cases[i].name>> \o Names(i + 1)
                ELSE Names(i + 1)
        IN  /\ driver.looped
            /\ Len(driver.benchmarked) = 2 * n
            /\ \A i \in 1..n :
                   /\ driver.benchmarked[2 * i - 1][1] = i - 1
                   /\ driver.benchmarked[2 * i - 1][2] = "left"
                   /\ driver.benchmarked[2 * i][1] = i - 1
                   /\ driver.benchmarked[2 * i][2] = "right"
            /\ [i \in 1..Len(driver.results) |-> driver.results[i].name] = Names(1)

\* C17: percentage_diff(left, right) is ((right - left) / left) * 100 whenever
\* left is not 0 (the float that two correctly rounded operations give, so
\* within 2^-51 of the exact quotient, relatively), percentage_diff(x, x) is 0
\* for x # 0, and percentage_diff(0, x) is +infinity for every x.
C17_PercentageDiff ==
    pdiff # None =>
        LET p    == pdiff[1]
            \* the exact value is num / den, the halves cancel
            num  == (pair[2] - pair[1]) * 100
            den  == pair[1]
            \* |p| * |den| and |num|, both times 2^k for the same k
            X    == BShl(BMul(p.m, BFromInt(Abs(den))), IF p.e > 0 THEN p.e ELSE 0)
            Y    == BShl(BFromInt(Abs(num)), IF p.e < 0 THEN -p.e ELSE 0)
            Gap  == IF BCmp(X, Y) >= 0 THEN BSub(X, Y) ELSE BSub(Y, X)
        IN  /\ pair[1] = 0 => p = FInf
            /\ (pair[1] # 0 /\ pair[2] = pair[1]) => p = FZero
            /\ (pair[1] # 0 /\ pair[2] # pair[1]) =>
                   /\ p.m # <<>>
                   /\ p # FInf
                   /\ p.s = (IF (num < 0) = (den < 0) THEN 1 ELSE -1)
                   /\ BCmp(BShl(Gap, 51), Y) <= 0

\* left 1000 and right 1200: 20.0
C17_Witness ==
    /\ pair = <<2000, 2400>>
    /\ pdiff = Some(FInt(20))

\* C16: get_metric(side, stage, kind) returns, in case order, one value for
\* each case that has the stage on that side, end_rss for rss and the duration
\* in milliseconds for time; a case whose metrics lack the stage adds no value
\* and does not make the call fail.
C16_GetMetricSkipsCasesWithoutStage ==
    (/\ got # None
     /\ \A i \in 1..Len(case_results) :
            side_of(case_results[i], got[1].args[1]).compile_metrics # None
     /\ stages_exc(case_results) = "none"
     /\ \E k \in 1..Len(stages(case_results)) :
            stages(case_results)[k] = got[1].args[2]) =>
        LET side   == got[1].args[1]
            stage  == got[1].args[2]
            metric == got[1].args[3]
            Of(i)  == side_of(case_results[i], side).compile_metrics[1]
            RECURSIVE Expected(_)
            Expected(i) ==
                IF i > Len(case_results) THEN <<>>
                ELSE IF stage \notin DOMAIN Of(i) THEN Expected(i + 1)
                ELSE <<IF metric = "rss" THEN Some(FInt(Of(i)[stage].total.end_rss[1]))
                       ELSE Some(to_ms(Of(i)[stage].total.duration))>>
                         \o Expected(i + 1)
        IN  /\ got[1].out.tag = "return"
            /\ got[1].out.value = Expected(1)

C19_OneRowPerCase ==
    printed # None =>
        /\ printed[1].tag = "return"
        /\ Len(printed[1].value) = Len(case_results)
        /\ \A i \in 1..Len(case_results) :
               LET o   == case_results[i].original.exe_size
                   r   == case_results[i].result.exe_size
                   row == printed[1].value[i]
               IN  /\ row.name = case_results[i].name
                   /\ (o = None \/ r = None)
                          => (row.difference = "N/A" /\ row.value = "N/A")
                   /\ (o # None /\ r # None)
                          => /\ row.difference[2] = sizeof_fmt(Abs(r[1] - o[1]))
                             /\ row.value[2]
                                    = fixed(FAbs(percentage_diff(FInt(o[1]), FInt(r[1]))),
                                            100)

\* C20: for every stage, get_rss_avg and get_duration_avg are percentage_diff
\* of the mean of the left side's values and the mean of the right side's,
\* and get_rss_domain and get_duration_domain are the pair of percentage_diff
\* of the two least values and percentage_diff of the two greatest values,
\* the least and the greatest taken on each side over all cases.
C20_StageStatistics ==
    (stats # None /\ stats[1].out.tag = "return") =>
        LET fn     == stats[1].fn
            stage  == stats[1].args
            n      == Len(case_results)
            IsRss  == fn \in {"get_rss_avg", "get_rss_domain"}
            Rss(side, i) ==
                side_of(case_results[i], side).compile_metrics[1][stage].total.end_rss[1]
            Time(side, i) ==
                to_ms(side_of(case_results[i], side).compile_metrics[1][stage]
                          .total.duration)
            Val(side, i) == IF IsRss THEN FInt(Rss(side, i)) ELSE Time(side, i)
            RECURSIVE RssSum(_, _)
            RssSum(side, i) == IF i = 0 THEN 0 ELSE RssSum(side, i - 1) + Rss(side, i)
            RECURSIVE TimeSum(_, _)
            TimeSum(side, i) ==
                IF i = 0 THEN FZero ELSE FAdd(TimeSum(side, i - 1), Time(side, i))
            Mean(side) == IF IsRss THEN FDiv(FInt(RssSum(side, n)), FInt(n))
                          ELSE FDiv(TimeSum(side, n), FInt(n))
            Lo(side) == Val(side, CHOOSE i \in 1..n :
                                      \A j \in 1..n : ~FLess(Val(side, j), Val(side, i)))
            Hi(side) == Val(side, CHOOSE i \in 1..n :
                                      \A j \in 1..n : ~FLess(Val(side, i), Val(side, j)))
        IN  IF fn \in {"get_rss_avg", "get_duration_avg"}
            THEN stats[1].out.value = percentage_diff(Mean("left"), Mean("right"))
            ELSE stats[1].out.value
                     = <<percentage_diff(Lo("left"), Lo("right")),
                         percentage_diff(Hi("left"), Hi("right"))>>

\* two cases whose least end_rss of parse is in the first case on the left
\* (200) and in the second on the right (200): the first component is 0, the
\* second compares 300 with 260
C20_Witness ==
    /\ case_results = EntriesOf(<< <<RA, RB>>, <<RC, RA>> >>)
    /\ stats # None
    /\ stats[1].fn = "get_rss_domain"
    /\ stats[1].args = "parse"
    /\ stats[1].out = Return(<<FZero, percentage_diff(FInt(300), FInt(260))>>)

\* C21: the pair get_rss_domain and get_duration_domain return is a
\* (min, max) range: its first component is less than or equal to its second.
C21_DomainIsOrdered ==
    (/\ stats # None
     /\ stats[1].fn \in {"get_rss_domain", "get_duration_domain"}
     /\ stats[1].out.tag = "return")
        => ~FLess(stats[1].out.value[2], stats[1].out.value[1])

\* C22: every result run_test_case returns has exit_code 0 if and only if it
\* has compile_metrics, and so every entry compare appends to the results has
\* compile_metrics on the original side and on the result side.
C22_MetricsIffExitZero ==
    /\ driver.left_result # None
           => (driver.left_result[1].exit_code = 0
                   <=> driver.left_result[1].compile_metrics # None)
    /\ \A i \in 1..Len(driver.results) :
           /\ driver.results[i].original.exit_code = 0
           /\ driver.results[i].original.compile_metrics # None
           /\ driver.results[i].result.exit_code = 0
           /\ driver.results[i].result.compile_metrics # None

\* of two cases, one was appended with the metrics of both builds and the
\* other was left out after a run that failed
C22_Witness ==
    /\ Len(driver.cases) = 2
    /\ driver.looped
    /\ Len(driver.results) = 1
    /\ driver.results[1].original.compile_metrics # None
    /\ driver.results[1].original.exe_size = Some(1300)
    /\ driver.results[1].result.compile_metrics # None
    /\ driver.results[1].result.exe_size = Some(1000)
    /\ \E k \in 1..Len(driver.benchmarked) : driver.benchmarked[k][3] # 0
====
